---- MODULE Spec2Model ----
(***************************************************************************)
(* State machine of DataProcessor (src/data_storage.py): the in-memory     *)
(* application state, the snapshot file application_state.json, the        *)
(* timestamped export artifacts processed_data_<ts>.json and the wall      *)
(* clock, driven by the public operations of the class (Spec), and of the  *)
(* session of DataAnalysisGUI (src/gui.py) that calls them and holds the   *)
(* derived tables (GuiSpec); QuerySpec adds the read-only queries get_data *)
(* and get_state_summary and the exclusion entry of the window.            *)
(***************************************************************************)
EXTENDS Integers, Sequences, FiniteSets, TLC

\* ------------------------------------------------------------------ bounds
\* Last second of the wall clock the model explores (seconds 0..MaxClock).
MaxClock == 1
\* Longest argument list handed to process_csv_files.
MaxBatch == 2

\* ------------------------------------------------------- values and files
old_key == "User Full Name *Anonymized"
new_key == "User_ID"

\* self.column_mappings (data_storage.py:15-17)
column_mappings == [x \in {old_key} |-> new_key]

\* The constructor's default exclusion set (data_storage.py:14).
DefaultExcluded == {"System", "Folder"}

\* Values that to_dict('records') yields for a column that _clean_csv_data
\* converted with pd.to_datetime (data_storage.py:95-98, 126): pandas
\* Timestamp objects, which json.dump cannot encode.
TimestampValues == {"Timestamp(2024-01-05)", "Timestamp(2024-02-07)"}

\* The file paths the operator can hand to process_csv_files.
RawPaths == {"./activity_log.csv", "user_log.csv", "archive/user_log.csv",
             "broken/activity_log.csv"}

\* str(Path(file_path)) (data_storage.py:114-116): pathlib drops a leading
\* "./", so the registry entry is not always the argument as given.
NormPath(fp) == IF fp = "./activity_log.csv" THEN "activity_log.csv" ELSE fp

\* path.stem.upper() (data_storage.py:120)
DatasetName(path) ==
    CASE path \in {"activity_log.csv", "broken/activity_log.csv"} -> "ACTIVITY_LOG"
      [] path = "component_codes.csv" -> "COMPONENT_CODES"
      [] OTHER -> "USER_LOG"

\* Whether pd.read_csv can read and parse the file (data_storage.py:67-74,
\* 102-103): _clean_csv_data raises for the others.
Readable(path) == path # "broken/activity_log.csv"

\* What a cell holds that has no value: NaN.
NaN == "NaN"

\* The order of the keys of a record: every file's header lists the columns it
\* has in this order, to_dict('records') keeps the header's order
\* (data_storage.py:126) and record[new_key] = record.pop(old_key)
\* (data_storage.py:203) leaves User_ID where it is or puts it last.
column_order ==
    <<"Date", "Time", "Component", "Action", "Code", "User_ID",
      old_key>>

\* The records _clean_csv_data and to_dict('records') give for each readable
\* file (data_storage.py:63-100, 123-126); the records of one file all have
\* the file's columns as keys. user_log.csv and backup/user_log.csv have a
\* Date column, so their Date values are Timestamps, sorted ascending.
CleanCsv(path) ==
    CASE path = "activity_log.csv" ->
           << [Time |-> "09:00", Component |-> "Quiz", Action |-> "Viewed"],
              [Time |-> "09:05", Component |-> "System", Action |-> "Viewed"],
              [Time |-> "09:10", Component |-> "Forum", Action |-> "Posted"] >>
      [] path = "user_log.csv" ->
           << [Date |-> "Timestamp(2024-01-05)"] @@ (old_key :> "7"),
              [Date |-> "Timestamp(2024-02-07)"] @@ (old_key :> "7"),
              [Date |-> "Timestamp(2024-02-07)"] @@ (old_key :> "8") >>
      [] path = "archive/user_log.csv" ->
           << [Time |-> "09:00", Component |-> "Folder", User_ID |-> "9"]
                 @@ (old_key :> "5"),
              [Time |-> "10:00", Component |-> "Forum", User_ID |-> "3"]
                 @@ (old_key :> "Unknown") >>
      [] path = "backup/user_log.csv" ->
           << [Date |-> "Timestamp(2024-01-05)"] @@ (old_key :> "Unknown"),
              [Date |-> "Timestamp(2024-01-05)"] @@ (old_key :> "7") >>
      [] path = "component_codes.csv" ->
           << [Component |-> "Quiz", Code |-> "Q1"],
              [Component |-> "System", Code |-> "S1"] >>
      [] OTHER -> << >>

\* ------------------------------------------------------------- dictionaries
EmptyDict == << >>

\* d[k] = v on a Python dict.
Put(d, k, v) == [x \in (DOMAIN d) \cup {k} |-> IF x = k THEN v ELSE d[x]]

\* d.get(k, default)
Get(d, k, default) == IF k \in DOMAIN d THEN d[k] ELSE default

\* d.update(u)
Update(d, u) ==
    [x \in (DOMAIN d) \cup (DOMAIN u) |-> IF x \in DOMAIN u THEN u[x] ELSE d[x]]

\* list(a_set): some enumeration of the set, as json.dump receives it.
RECURSIVE list(_)
list(S) == IF S = {} THEN << >>
           ELSE LET x == CHOOSE y \in S : TRUE IN <<x>> \o list(S \ {x})

\* set(a_list)
set(l) == {l[i] : i \in DOMAIN l}

\* ------------------------------------------------------------------- state
VARIABLES
    data,                 \* self.data: dataset name -> list of records
    stats,                \* self.stats: dataset name -> statistics dict
    processed_files,      \* self.processed_files
    excluded_components,  \* self.excluded_components
    state_file,           \* content of application_state.json
    export_files,         \* the timestamps <ts> of the files processed_data_<ts>.json
    last_export,          \* name and content of the export file written last
    now,                  \* the wall clock, in seconds
    result,               \* the last call: its name, whether it raised, and what
                          \* process_csv_files printed about its batch
    loaded_files,         \* DataAnalysisGUI.loaded_files
    merged_df,            \* DataAnalysisGUI.merged_df
    reshaped_df,          \* DataAnalysisGUI.reshaped_df
    interaction_df,       \* DataAnalysisGUI.interaction_df
    messagebox,           \* the dialog the last handler of the GUI showed
    excluded_var,         \* DataAnalysisGUI.excluded_var: the text of the entry
                          \* "Excluded Components"
    returned              \* what a query of the DataProcessor returned to the
                          \* last handler, None when it made none

\* The attributes of DataAnalysisGUI and its last dialog.
gui_vars ==
    <<loaded_files, merged_df, reshaped_df, interaction_df, messagebox,
      excluded_var, returned>>

vars == <<data, stats, processed_files, excluded_components, state_file,
          export_files, last_export, now, result, gui_vars>>

\* The in-memory application state as one value.
Mem == [data |-> data, stats |-> stats, processed_files |-> processed_files,
        excluded_components |-> excluded_components]

\* The export directory as one value.
Exports == [files |-> export_files, last |-> last_export]

Absent == [kind |-> "absent"]
Truncated == [kind |-> "truncated"]

\* Whether json.dump can encode the dataset map: every value is a str or a
\* number, none a Timestamp.
Serializable(d) ==
    \A n \in DOMAIN d : \A i \in DOMAIN d[n] : \A k \in DOMAIN d[n][i] :
        d[n][i][k] \notin TimestampValues

\* datetime.now().strftime("%Y%m%d_%H%M%S") (data_storage.py:223): the clock
\* counts whole seconds, the resolution of the export's file name.
strftime(t) == t

\* datetime.now().isoformat() (data_storage.py:53, 134, 174)
isoformat(t) == t

\* ------------------------------------------------------------- persistence
\* _save_state (data_storage.py:47-61): the content of the snapshot file
\* after the call. open('w') truncates the file and json.dump writes until it
\* meets a value it cannot encode; the exception is printed, never raised.
_save_state(m, t) ==
    IF Serializable(m.data)
    THEN [kind |-> "json",
          stats |-> m.stats,
          processed_files |-> list(m.processed_files),
          excluded_components |-> list(m.excluded_components),
          last_updated |-> isoformat(t),
          data |-> m.data]
    ELSE Truncated

\* _initialize_new_state that leaves the statistics as they are.
_initialize_new_state_keeping_stats(m) ==
    [data |-> EmptyDict, stats |-> m.stats, processed_files |-> {},
     excluded_components |-> m.excluded_components]

\* _initialize_new_state (data_storage.py:41-45): the memory it leaves;
\* excluded_components is not assigned.
_initialize_new_state(m) ==
    [data |-> EmptyDict, stats |-> EmptyDict, processed_files |-> {},
     excluded_components |-> m.excluded_components]

\* _load_state that does not restore the processed-file registry.
_load_state_without_registry(m, f, t) ==
    CASE f.kind = "absent" -> [mem |-> m, file |-> f, error |-> FALSE]
      [] f.kind = "json" ->
           [mem |-> [data |-> f.data, stats |-> f.stats,
                     processed_files |-> m.processed_files,
                     excluded_components |-> set(f.excluded_components)],
            file |-> f, error |-> FALSE]
      [] OTHER ->
           LET fresh == _initialize_new_state(m)
           IN  [mem |-> fresh, file |-> _save_state(fresh, t), error |-> TRUE]

\* _load_state that, on a snapshot it cannot parse, empties the memory but
\* leaves the file as it found it.
_load_state_keeps_file(m, f, t) ==
    CASE f.kind = "absent" -> [mem |-> m, file |-> f, error |-> FALSE]
      [] f.kind = "json" ->
           [mem |-> [data |-> f.data, stats |-> f.stats,
                     processed_files |-> set(f.processed_files),
                     excluded_components |-> set(f.excluded_components)],
            file |-> f, error |-> FALSE]
      [] OTHER ->
           [mem |-> _initialize_new_state(m), file |-> f, error |-> TRUE]

\* _load_state (data_storage.py:26-39): memory and snapshot file after the
\* call, from memory m and file content f at time t, and whether it printed
\* "Error loading state". json.load raises on a file cut short; the except
\* branch calls _initialize_new_state, which saves.
_load_state(m, f, t) ==
    CASE f.kind = "absent" -> [mem |-> m, file |-> f, error |-> FALSE]
      [] f.kind = "json" ->
           [mem |-> [data |-> f.data, stats |-> f.stats,
                     processed_files |-> set(f.processed_files),
                     excluded_components |-> set(f.excluded_components)],
            file |-> f, error |-> FALSE]
      [] OTHER ->
           LET fresh == _initialize_new_state(m)
           IN  [mem |-> fresh, file |-> _save_state(fresh, t), error |-> TRUE]

\* _save_json_records (data_storage.py:215-245): the export directory after
\* the call and whether the call raised. ex = [files, last]: the names
\* (timestamps) of the files processed_data_<ts>.json in the directory, and
\* the name and content of the file written last. open('w') creates the file
\* or empties the one of that name; a dataset map json.dump cannot encode
\* leaves it cut short and the call raises.
_save_json_records(m, ex, t) ==
    IF m.data = EmptyDict
    THEN [files |-> ex.files, last |-> ex.last, raised |-> FALSE]
    ELSE IF Serializable(m.data)
    THEN [files |-> ex.files \cup {strftime(t)},
          last |-> [kind |-> "json",
                    name |-> strftime(t),
                    metadata |-> [processed_at |-> strftime(t),
                                  file_statistics |-> m.stats,
                                  processed_files |-> list(m.processed_files),
                                  excluded_components |-> list(m.excluded_components),
                                  column_mappings |-> column_mappings],
                    data |-> m.data],
          raised |-> FALSE]
    ELSE [files |-> ex.files \cup {strftime(t)},
          last |-> [kind |-> "truncated", name |-> strftime(t)],
          raised |-> TRUE]

\* ---------------------------------------------------------------- ingestion
\* process_one_file with the registry test made on the argument as given
\* instead of on str(Path(file_path)).
process_one_file_raw_test(st, file_path, t) ==
    LET path == NormPath(file_path)
        dataset_name == DatasetName(path)
        records == CleanCsv(path)
        total_rows == Len(records)
    IN  IF file_path \in st.processed_files
        THEN [st EXCEPT !.skipped = TRUE]
        ELSE IF ~Readable(path)
        THEN [st EXCEPT !.failed = TRUE]
        ELSE [data |-> Put(st.data, dataset_name, records),
              stats |-> Put(st.stats, dataset_name,
                            [total_rows |-> total_rows,
                             original_rows |-> total_rows,
                             processed_at |-> isoformat(t)]),
              processed_files |-> st.processed_files \cup {path},
              newly_processed |-> TRUE,
              skipped |-> st.skipped, failed |-> st.failed]

\* process_one_file that appends the new records to the records already
\* stored under the dataset name instead of replacing them.
process_one_file_appends(st, file_path, t) ==
    LET path == NormPath(file_path)
        dataset_name == DatasetName(path)
        records == Get(st.data, dataset_name, << >>) \o CleanCsv(path)
        total_rows == Len(records)
    IN  IF path \in st.processed_files
        THEN [st EXCEPT !.skipped = TRUE]
        ELSE IF ~Readable(path)
        THEN [st EXCEPT !.failed = TRUE]
        ELSE [data |-> Put(st.data, dataset_name, records),
              stats |-> Put(st.stats, dataset_name,
                            [total_rows |-> total_rows,
                             original_rows |-> total_rows,
                             processed_at |-> isoformat(t)]),
              processed_files |-> st.processed_files \cup {path},
              newly_processed |-> TRUE,
              skipped |-> st.skipped, failed |-> st.failed]

\* process_one_file that updates the statistics the dataset name has already
\* instead of replacing them.
process_one_file_updating_stats(st, file_path, t) ==
    LET path == NormPath(file_path)
        dataset_name == DatasetName(path)
        records == CleanCsv(path)
        total_rows == Len(records)
    IN  IF path \in st.processed_files
        THEN [st EXCEPT !.skipped = TRUE]
        ELSE IF ~Readable(path)
        THEN [st EXCEPT !.failed = TRUE]
        ELSE [data |-> Put(st.data, dataset_name, records),
              stats |-> Put(st.stats, dataset_name,
                            Update(Get(st.stats, dataset_name, EmptyDict),
                                   [total_rows |-> total_rows,
                                    original_rows |-> total_rows,
                                    processed_at |-> isoformat(t)])),
              processed_files |-> st.processed_files \cup {path},
              newly_processed |-> TRUE,
              skipped |-> st.skipped, failed |-> st.failed]

\* One iteration of the loop of process_csv_files (data_storage.py:112-146)
\* on the loop state st = [data, stats, processed_files, newly_processed,
\* skipped, failed]; skipped and failed say whether the loop has printed
\* "Skipping already processed file" or "Error processing" so far. A
\* registered path is skipped; a file _clean_csv_data cannot read raises, which
\* the loop catches and goes on.
process_one_file(st, file_path, t) ==
    LET path == NormPath(file_path)
        dataset_name == DatasetName(path)
        records == CleanCsv(path)
        total_rows == Len(records)
    IN  IF path \in st.processed_files
        THEN [st EXCEPT !.skipped = TRUE]
        ELSE IF ~Readable(path)
        THEN [st EXCEPT !.failed = TRUE]
        ELSE [data |-> Put(st.data, dataset_name, records),
              stats |-> Put(st.stats, dataset_name,
                            [total_rows |-> total_rows,
                             original_rows |-> total_rows,
                             processed_at |-> isoformat(t)]),
              processed_files |-> st.processed_files \cup {path},
              newly_processed |-> TRUE,
              skipped |-> st.skipped, failed |-> st.failed]

\* process_loop that ends at the first file _clean_csv_data cannot read, as
\* if the exception left the loop.
RECURSIVE process_loop_aborting(_, _, _)
process_loop_aborting(st, file_paths, t) ==
    IF file_paths = << >> THEN st
    ELSE IF process_one_file(st, Head(file_paths), t).failed
    THEN process_one_file(st, Head(file_paths), t)
    ELSE process_loop_aborting(process_one_file(st, Head(file_paths), t),
                               Tail(file_paths), t)

\* The for loop of process_csv_files (data_storage.py:110-146).
RECURSIVE process_loop(_, _, _)
process_loop(st, file_paths, t) ==
    IF file_paths = << >> THEN st
    ELSE process_loop(process_one_file(st, Head(file_paths), t),
                      Tail(file_paths), t)

\* ---------------------------------------------------------------- filtering
\* filter_dataset with removed_rows counted from the rows the dataset holds
\* now instead of original_rows.
filter_dataset_rebased(st, records, excluded, t) ==
    LET filtered_records ==
            SelectSeq(records,
                      LAMBDA record :
                          ~("Component" \in DOMAIN record
                            /\ record["Component"] \in excluded))
        filtered_rows == Len(filtered_records)
    IN  [stats |-> Update(st, [filtered_rows |-> filtered_rows,
                               removed_rows |-> Len(records) - filtered_rows,
                               filtered_at |-> isoformat(t)]),
         records |-> filtered_records]

\* filter_dataset that also overwrites original_rows with the filtered count.
filter_dataset_resets_original(st, records, excluded, t) ==
    LET original_rows == Get(st, "original_rows", Get(st, "total_rows", 0))
        filtered_records ==
            SelectSeq(records,
                      LAMBDA record :
                          ~("Component" \in DOMAIN record
                            /\ record["Component"] \in excluded))
        filtered_rows == Len(filtered_records)
    IN  [stats |-> Update(st, [filtered_rows |-> filtered_rows,
                               removed_rows |-> original_rows - filtered_rows,
                               original_rows |-> filtered_rows,
                               filtered_at |-> isoformat(t)]),
         records |-> filtered_records]

\* filter_dataset that also drops the records that have no Component key.
filter_dataset_drops_componentless(st, records, excluded, t) ==
    LET original_rows == Get(st, "original_rows", Get(st, "total_rows", 0))
        filtered_records ==
            SelectSeq(records,
                      LAMBDA record :
                          "Component" \in DOMAIN record
                            /\ record["Component"] \notin excluded)
        filtered_rows == Len(filtered_records)
    IN  [stats |-> Update(st, [filtered_rows |-> filtered_rows,
                               removed_rows |-> original_rows - filtered_rows,
                               filtered_at |-> isoformat(t)]),
         records |-> filtered_records]

\* filter_dataset with removed_rows counted from the rows the dataset holds
\* when the call begins, whenever the dataset was filtered before.
filter_dataset_rebased_on_rerun(st, records, excluded, t) ==
    LET original_rows == IF "filtered_rows" \in DOMAIN st THEN Len(records)
                         ELSE Get(st, "original_rows", Get(st, "total_rows", 0))
        filtered_records ==
            SelectSeq(records,
                      LAMBDA record :
                          ~("Component" \in DOMAIN record
                            /\ record["Component"] \in excluded))
        filtered_rows == Len(filtered_records)
    IN  [stats |-> Update(st, [filtered_rows |-> filtered_rows,
                               removed_rows |-> original_rows - filtered_rows,
                               filtered_at |-> isoformat(t)]),
         records |-> filtered_records]

\* The statistics and records of one dataset after the loop body of
\* remove_excluded_components (data_storage.py:159-178).
filter_dataset(st, records, excluded, t) ==
    LET original_rows == Get(st, "original_rows", Get(st, "total_rows", 0))
        filtered_records ==
            SelectSeq(records,
                      LAMBDA record :
                          ~("Component" \in DOMAIN record
                            /\ record["Component"] \in excluded))
        filtered_rows == Len(filtered_records)
    IN  [stats |-> Update(st, [filtered_rows |-> filtered_rows,
                               removed_rows |-> original_rows - filtered_rows,
                               filtered_at |-> isoformat(t)]),
         records |-> filtered_records]

\* ----------------------------------------------------------------- renaming
\* rename_record that keeps the User_ID a record has already and only drops
\* the source key.
rename_record_keeps_existing(record) ==
    IF old_key \in DOMAIN record
    THEN [k \in ((DOMAIN record) \ {old_key}) \cup {new_key} |->
             IF k = new_key /\ new_key \notin DOMAIN record
             THEN record[old_key] ELSE record[k]]
    ELSE record

\* record[new_key] = record.pop(old_key) when old_key is in the record
\* (data_storage.py:201-203).
rename_record(record) ==
    IF old_key \in DOMAIN record
    THEN [k \in ((DOMAIN record) \ {old_key}) \cup {new_key} |->
             IF k = new_key THEN record[old_key] ELSE record[k]]
    ELSE record

\* ------------------------------------------------------------ derived tables
\* A DataFrame: its column labels in order (a label may occur twice), its
\* rows as sequences of cells aligned with the labels, and the labels of the
\* columns astype(int) or a count made integer. A cell that pandas holds as an
\* int is written as its numeral, except the counts, which are numbers.
None == [none |-> TRUE]

\* The order sort_values and groupby put key values in: ascending, which for
\* the numerals of one digit is also the order of the integers.
sort_order ==
    <<"0", "1", "2", "2024-01", "2024-02", "3", "4", "5", "6", "7", "8", "9",
      "Folder", "Forum", "Quiz", "System", "Unknown">>

\* The place of a key value in sort_order.
sort_key(v) == CHOOSE i \in DOMAIN sort_order : sort_order[i] = v

\* The elements of the finite set S as a sequence ascending by rank, a
\* function that gives different elements different numbers.
Sorted(S, rank) ==
    [i \in 1..Cardinality(S) |->
        CHOOSE x \in S : Cardinality({y \in S : rank[y] < rank[x]}) = i - 1]

\* Whether int(v) succeeds on a cell of an object column: on the numerals,
\* not on NaN, "Unknown" or any other text (data_storage.py:299).
Coercible(v) == v \in {"0", "1", "2", "3", "4", "5", "6", "7", "8", "9"}

\* pd.to_datetime(v).strftime('%Y-%m') on one cell (data_storage.py:286): NaT
\* gives NaN.
YearMonth(v) ==
    CASE v = "Timestamp(2024-01-05)" -> "2024-01"
      [] v = "Timestamp(2024-02-07)" -> "2024-02"
      [] OTHER -> NaN

\* Whether the table has a column labelled c.
HasColumn(df, c) == \E j \in DOMAIN df.columns : df.columns[j] = c

\* The place of the first column labelled c.
ColumnAt(df, c) ==
    CHOOSE j \in DOMAIN df.columns :
        df.columns[j] = c /\ \A k \in 1..(j - 1) : df.columns[k] # c

\* How many columns are labelled c.
ColumnCount(df, c) == Cardinality({j \in DOMAIN df.columns : df.columns[j] = c})

\* pd.DataFrame(records) (data_storage.py:268-270): one column per key, in the
\* order of the keys; a record without a key has NaN there.
DataFrame(records) ==
    LET present == UNION {DOMAIN records[i] : i \in DOMAIN records}
        columns == SelectSeq(column_order, LAMBDA c : c \in present)
    IN  [columns |-> columns,
         rows |-> [i \in DOMAIN records |->
                      [j \in DOMAIN columns |-> Get(records[i], columns[j], NaN)]],
         ints |-> {}]

\* df.reset_index() (data_storage.py:273-274): the old RangeIndex becomes the
\* first column, labelled index.
reset_index(df) ==
    [columns |-> <<"index">> \o df.columns,
     rows |-> [i \in DOMAIN df.rows |-> <<ToString(i - 1)>> \o df.rows[i]],
     ints |-> df.ints \cup {"index"}]

\* pd.concat([a, b], axis=1) (data_storage.py:272-275): the columns of a, then
\* those of b, row i beside row i; the shorter table is filled with NaN.
concat(a, b) ==
    LET n == IF Len(a.rows) >= Len(b.rows) THEN Len(a.rows) ELSE Len(b.rows)
        row(t, i) == IF i <= Len(t.rows) THEN t.rows[i]
                     ELSE [j \in DOMAIN t.columns |-> NaN]
    IN  [columns |-> a.columns \o b.columns,
         rows |-> [i \in 1..n |-> row(a, i) \o row(b, i)],
         ints |-> a.ints \cup b.ints]

\* A sequence without its k-th element.
Without(seq, k) == SubSeq(seq, 1, k - 1) \o SubSeq(seq, k + 1, Len(seq))

\* The rows a left join gives for the left rows from position i on: each left
\* row once per right row with the same key, in the right table's order, or
\* once with NaN in the right table's columns when no right row has the key.
RECURSIVE left_join_rows(_, _, _, _, _)
left_join_rows(left, right, lk, rk, i) ==
    IF i > Len(left.rows) THEN << >>
    ELSE LET matches == SelectSeq(right.rows,
                                  LAMBDA r : r[rk] = left.rows[i][lk])
             joined == IF matches = << >>
                       THEN << left.rows[i]
                               \o [j \in 1..(Len(right.columns) - 1) |-> NaN] >>
                       ELSE [m \in DOMAIN matches |->
                                left.rows[i] \o Without(matches[m], rk)]
         IN  joined \o left_join_rows(left, right, lk, rk, i + 1)

\* left.merge(right, on=key, how='left') (data_storage.py:277-281) for tables
\* that share no label but the key: the left table's columns, then the right
\* table's without the key. The key must be a label of both tables, and of the
\* left one only once.
merge(left, right, key) ==
    [columns |-> left.columns \o Without(right.columns, ColumnAt(right, key)),
     rows |-> left_join_rows(left, right, ColumnAt(left, key),
                             ColumnAt(right, key), 1),
     ints |-> left.ints \cup (right.ints \ {key})]

\* df.iloc[:, k:] (data_storage.py:284): the table without its first k
\* columns, whatever they are.
iloc_columns_from(df, k) ==
    [columns |-> SubSeq(df.columns, k + 1, Len(df.columns)),
     rows |-> [i \in DOMAIN df.rows |->
                  SubSeq(df.rows[i], k + 1, Len(df.rows[i]))],
     ints |-> {c \in df.ints :
                  \E j \in (k + 1)..Len(df.columns) : df.columns[j] = c}]

\* df['Month'] = pd.to_datetime(df['Date']).dt.strftime('%Y-%m')
\* (data_storage.py:286) on a table with exactly one Date column: Month is a
\* new last column, or replaces the Month column there is.
with_month(df) ==
    LET d == ColumnAt(df, "Date")
    IN  IF HasColumn(df, "Month")
        THEN [df EXCEPT !.rows =
                 [i \in DOMAIN df.rows |->
                     [df.rows[i] EXCEPT ![ColumnAt(df, "Month")] =
                         YearMonth(df.rows[i][d])]]]
        ELSE [columns |-> Append(df.columns, "Month"),
              rows |-> [i \in DOMAIN df.rows |->
                           Append(df.rows[i], YearMonth(df.rows[i][d]))],
              ints |-> df.ints]

\* The message of an exception: the prefix the method's except clause puts
\* before it, the text of the exception raised inside, and the names that
\* text quotes.
Error(prefix, message, names) ==
    [prefix |-> prefix, message |-> message, names |-> names]

\* The result of a method that returns a table or raises.
Raised(error, df) == [raised |-> TRUE, error |-> error, df |-> df, table |-> None]
Returned(df, table) == [raised |-> FALSE, error |-> None, df |-> df, table |-> table]

\* merge_datasets (data_storage.py:259-291) on the dataset map d: the table it
\* returns, or the exception it raises. The check of the required datasets
\* names ACTIVITY_LOG and USER_LOG only; self.data['COMPONENT_CODES'] raises
\* KeyError; merge raises when Component is no label of one of the tables or
\* twice a label of the left one; df['Date'] raises KeyError without a Date
\* column and gives a DataFrame, which to_datetime rejects, with two.
merge_datasets(d) ==
    LET fail(message, names) ==
            Raised(Error("Merge operation failed: ", message, names), None)
    IN  IF ~({"ACTIVITY_LOG", "USER_LOG"} \subseteq DOMAIN d)
        THEN fail("Missing required datasets: ",
                  {"ACTIVITY_LOG", "USER_LOG"} \ DOMAIN d)
        ELSE IF "COMPONENT_CODES" \notin DOMAIN d
        THEN fail("KeyError", {"COMPONENT_CODES"})
        ELSE LET activity_df == DataFrame(d["ACTIVITY_LOG"])
                 user_df == DataFrame(d["USER_LOG"])
                 component_df == DataFrame(d["COMPONENT_CODES"])
                 both == concat(reset_index(activity_df), reset_index(user_df))
             IN  IF ~HasColumn(both, "Component")
                    \/ ~HasColumn(component_df, "Component")
                 THEN fail("KeyError", {"Component"})
                 ELSE IF ColumnCount(both, "Component") > 1
                 THEN fail("The column label is not unique", {"Component"})
                 ELSE LET merged == iloc_columns_from(
                                        merge(both, component_df, "Component"), 2)
                      IN  IF ~HasColumn(merged, "Date")
                          THEN fail("KeyError", {"Date"})
                          ELSE IF ColumnCount(merged, "Date") > 1
                          THEN fail("to assemble mappings requires at least that [year, month, day] be specified",
                                    {})
                          ELSE Returned(None, with_month(merged))

\* The sum of a sequence of numbers.
RECURSIVE sum(_)
sum(cells) == IF cells = << >> THEN 0 ELSE Head(cells) + sum(Tail(cells))

\* pd.pivot_table(df, index=['User_ID', 'Month'], columns=['Component'],
\* values='Action', aggfunc='count', fill_value=0), reset_index, the
\* Total_Interactions column and sort_values (data_storage.py:303-320), on a
\* table that has the four columns: the rows with NaN in a key are left out;
\* a cell counts the rows of its User_ID, Month and Component whose Action is
\* not NaN.
pivot(df) ==
    LET u == ColumnAt(df, "User_ID")
        m == ColumnAt(df, "Month")
        c == ColumnAt(df, "Component")
        a == ColumnAt(df, "Action")
        valid == {i \in DOMAIN df.rows :
                     df.rows[i][m] # NaN /\ df.rows[i][c] # NaN}
        index == {<<df.rows[i][u], df.rows[i][m]>> : i \in valid}
        pairs == Sorted(index,
                        [p \in index |-> sort_key(p[1]) * (Len(sort_order) + 1)
                                             + sort_key(p[2])])
        labels == {df.rows[i][c] : i \in valid}
        components == Sorted(labels, [l \in labels |-> sort_key(l)])
        cell(p, comp) ==
            Cardinality({i \in valid : /\ df.rows[i][u] = p[1]
                                       /\ df.rows[i][m] = p[2]
                                       /\ df.rows[i][c] = comp
                                       /\ df.rows[i][a] # NaN})
        cells(p) == [j \in DOMAIN components |-> cell(p, components[j])]
    IN  [columns |-> <<"User_ID", "Month">> \o components
                         \o <<"Total_Interactions">>,
         rows |-> [k \in DOMAIN pairs |->
                      pairs[k] \o cells(pairs[k]) \o <<sum(cells(pairs[k]))>>],
         ints |-> {"User_ID", "Total_Interactions"}
                      \cup {components[j] : j \in DOMAIN components}]

\* reshape_data that stores the coerced column although the coercion failed
\* on some cell.
reshape_data_coercing_in_place(df) ==
    LET fail(message, names, table) ==
            Raised(Error("Reshape operation failed: ", message, names), table)
        coerced == [df EXCEPT !.ints = @ \cup {"User_ID"}]
        missing == SelectSeq(<<"Action", "Month", "Component">>,
                             LAMBDA c : ~HasColumn(df, c))
    IN  IF ~HasColumn(df, "User_ID")
        THEN fail("KeyError", {"User_ID"}, df)
        ELSE IF \E i \in DOMAIN df.rows :
                    ~Coercible(df.rows[i][ColumnAt(df, "User_ID")])
        THEN fail("cannot convert to int", {}, coerced)
        ELSE IF missing # << >>
        THEN fail("KeyError", {Head(missing)}, coerced)
        ELSE Returned(coerced, pivot(coerced))

\* reshape_data(df) (data_storage.py:293-325): the table it returns or the
\* exception it raises, and df as the call leaves it. astype(int) raises on a
\* cell it cannot convert before anything is assigned; once it succeeds, the
\* User_ID column of df itself is the integer one, also when pivot_table then
\* raises for a missing column (values first, then the keys).
reshape_data(df) ==
    LET fail(message, names, table) ==
            Raised(Error("Reshape operation failed: ", message, names), table)
        coerced == [df EXCEPT !.ints = @ \cup {"User_ID"}]
        missing == SelectSeq(<<"Action", "Month", "Component">>,
                             LAMBDA c : ~HasColumn(df, c))
    IN  IF ~HasColumn(df, "User_ID")
        THEN fail("KeyError", {"User_ID"}, df)
        ELSE IF \E i \in DOMAIN df.rows :
                    ~Coercible(df.rows[i][ColumnAt(df, "User_ID")])
        THEN fail("cannot convert to int", {}, df)
        ELSE IF missing # << >>
        THEN fail("KeyError", {Head(missing)}, coerced)
        ELSE Returned(coerced, pivot(coerced))

\* count_interactions(df) (data_storage.py:327-336): groupby leaves out the
\* rows with NaN in a key, size counts the rows of each group, and the groups
\* come in ascending order of (User_ID, Component, Month).
count_interactions(df) ==
    LET missing == SelectSeq(<<"User_ID", "Component", "Month">>,
                             LAMBDA c : ~HasColumn(df, c))
        u == ColumnAt(df, "User_ID")
        c == ColumnAt(df, "Component")
        m == ColumnAt(df, "Month")
        valid == {i \in DOMAIN df.rows :
                     /\ df.rows[i][u] # NaN
                     /\ df.rows[i][c] # NaN
                     /\ df.rows[i][m] # NaN}
        K == Len(sort_order) + 1
        keys == {<<df.rows[i][u], df.rows[i][c], df.rows[i][m]>> : i \in valid}
        groups == Sorted(keys,
                         [g \in keys |-> (sort_key(g[1]) * K + sort_key(g[2])) * K
                                             + sort_key(g[3])])
        size(g) == Cardinality({i \in valid :
                                   <<df.rows[i][u], df.rows[i][c],
                                     df.rows[i][m]>> = g})
    IN  IF missing # << >>
        THEN Raised(Error("Counting interactions failed: ", "KeyError",
                          {Head(missing)}), df)
        ELSE Returned(df,
                 [columns |-> <<"User_ID", "Component", "Month",
                                "Interaction_Count">>,
                  rows |-> [k \in DOMAIN groups |->
                               groups[k] \o <<size(groups[k])>>],
                  ints |-> (df.ints \cap {"User_ID"})
                               \cup {"Interaction_Count"}])

\* ------------------------------------------------------------------ queries
\* get_data with self.data.setdefault(dataset_name, []) where the code has
\* self.data.get(dataset_name, []).
get_data_setdefault(d, dataset_name) ==
    IF dataset_name # ""
    THEN [value |-> [x \in {dataset_name} |-> Get(d, dataset_name, << >>)],
          data |-> IF dataset_name \in DOMAIN d THEN d
                                                ELSE Put(d, dataset_name, << >>)]
    ELSE [value |-> d, data |-> d]

\* get_data(dataset_name) (data_storage.py:338-341) on the dataset map d: the
\* dict it returns and self.data as the call leaves it. "if dataset_name:" is
\* false for None, the default, and for the empty string: both are written ""
\* here.
get_data(d, dataset_name) ==
    IF dataset_name # ""
    THEN [value |-> [x \in {dataset_name} |-> Get(d, dataset_name, << >>)],
          data |-> d]
    ELSE [value |-> d, data |-> d]

\* sum(len(records) for records in self.data.values()) (data_storage.py:346)
\* over the datasets named in S.
RECURSIVE total_records(_, _)
total_records(d, S) ==
    IF S = {} THEN 0
    ELSE LET n == CHOOSE x \in S : TRUE
         IN  Len(d[n]) + total_records(d, S \ {n})

\* get_state_summary (data_storage.py:343-349) on memory m: last_updated is
\* looked up in self.stats, the dict of the statistics per dataset.
get_state_summary(m) ==
    [processed_files |-> Cardinality(m.processed_files),
     total_records |-> total_records(m.data, DOMAIN m.data),
     datasets |-> list(DOMAIN m.data),
     last_updated |-> Get(m.stats, "last_updated", "Never")]

\* What a handler holds after a query: the method it called and the value it
\* got.
Reply(query, value) == [query |-> query, value |-> value]

\* ------------------------------------------------------------------ actions
\* The argument lists process_csv_files is called with: the distinct files
\* picked in the file dialog (gui.py:252-261, 366).
Batches ==
    {b \in UNION {[1..n -> RawPaths] : n \in 1..MaxBatch} :
        \A i, j \in DOMAIN b : i # j => b[i] # b[j]}

\* The dataset map with rename_record applied to every record of every
\* dataset (data_storage.py:199-205).
renamed_data(d) ==
    [n \in DOMAIN d |-> [i \in DOMAIN d[n] |-> rename_record(d[n][i])]]

\* What the caller and the console see of a call: its name, whether it raised,
\* and the flags of what it printed: for process_csv_files the final loop
\* state's, for __init__ whether _load_state printed "Error loading state"
\* (failed).
Result(op, raised, st) ==
    [op |-> op, raised |-> raised, newly_processed |-> st.newly_processed,
     skipped |-> st.skipped, failed |-> st.failed]

\* The flags of a call that is not process_csv_files.
NoFiles == [newly_processed |-> FALSE, skipped |-> FALSE, failed |-> FALSE]

\* The attributes as the constructor sets them before it loads the snapshot
\* (data_storage.py:13-19).
Defaults ==
    [data |-> EmptyDict, stats |-> EmptyDict, processed_files |-> {},
     excluded_components |-> DefaultExcluded]

\* What a dialog of the GUI says: the handler that showed it, showinfo or
\* showerror, and the message.
Dialog(handler, kind, text) == [handler |-> handler, kind |-> kind, text |-> text]

\* A message that is plain text.
Text(message) == Error("", message, {})

\* The attributes DataAnalysisGUI.__init__ sets (gui.py:13-23); no dialog has
\* been shown.
GuiInit ==
    /\ loaded_files = << >>
    /\ merged_df = None
    /\ reshaped_df = None
    /\ interaction_df = None
    /\ messagebox = None
    /\ excluded_var = "System,Folder"
    /\ returned = None

\* A fresh directory: the object as the constructor leaves it when there is no
\* snapshot file (data_storage.py:10-21), inside a GUI just opened.
Init ==
    /\ data = EmptyDict
    /\ stats = EmptyDict
    /\ processed_files = {}
    /\ excluded_components = DefaultExcluded
    /\ state_file = Absent
    /\ export_files = {}
    /\ last_export = [kind |-> "none"]
    /\ now = 0
    /\ result = Result("__init__", FALSE, NoFiles)
    /\ GuiInit

\* An exclusion set other than the default, as a snapshot can carry it.
ConfiguredExcluded == {"Forum"}

\* A snapshot file of an empty state whose excluded_components were edited
\* (data_storage.py:49-55 gives its layout).
ConfiguredSnapshot ==
    [kind |-> "json", stats |-> EmptyDict, processed_files |-> << >>,
     excluded_components |-> list(ConfiguredExcluded),
     last_updated |-> isoformat(0), data |-> EmptyDict]

\* The object as the constructor leaves it when the directory holds
\* ConfiguredSnapshot: _load_state takes the exclusion set from the file
\* (data_storage.py:10-21, 31-35).
InitConfigured ==
    LET r == _load_state(Defaults, ConfiguredSnapshot, 0)
    IN  /\ data = r.mem.data
        /\ stats = r.mem.stats
        /\ processed_files = r.mem.processed_files
        /\ excluded_components = r.mem.excluded_components
        /\ state_file = r.file
        /\ export_files = {}
        /\ last_export = [kind |-> "none"]
        /\ now = 0
        /\ result = Result("__init__", FALSE, NoFiles)
        /\ GuiInit

\* A second of wall-clock time passes between two calls.
Tick ==
    /\ now < MaxClock
    /\ now' = now + 1
    /\ UNCHANGED <<data, stats, processed_files, excluded_components,
                   state_file, export_files, last_export, result>>

\* The program is started again on the same directory: DataProcessor.__init__
\* (data_storage.py:10-21) sets the defaults, then _load_state reads the
\* snapshot.
__init__ ==
    LET r == _load_state(Defaults, state_file, now)
    IN  /\ data' = r.mem.data
        /\ stats' = r.mem.stats
        /\ processed_files' = r.mem.processed_files
        /\ excluded_components' = r.mem.excluded_components
        /\ state_file' = r.file
        /\ result' = Result("__init__", FALSE,
                            [NoFiles EXCEPT !.failed = r.error])
        /\ UNCHANGED <<export_files, last_export, now>>

\* process_csv_files(*file_paths) (data_storage.py:105-150). The export runs
\* outside the loop's try: when it raises, the call raises and _save_state is
\* not reached.
process_csv_files(file_paths) ==
    \E st \in {process_loop([data |-> data, stats |-> stats,
                             processed_files |-> processed_files,
                             newly_processed |-> FALSE,
                             skipped |-> FALSE, failed |-> FALSE],
                            file_paths, now)} :
    \E m \in {[data |-> st.data, stats |-> st.stats,
                processed_files |-> st.processed_files,
                excluded_components |-> excluded_components]} :
    \E ex \in {_save_json_records(m, Exports, now)} :
        /\ data' = st.data
        /\ stats' = st.stats
        /\ processed_files' = st.processed_files
        /\ IF st.newly_processed
           THEN /\ export_files' = ex.files
                /\ last_export' = ex.last
                /\ state_file' = IF ex.raised THEN state_file
                                              ELSE _save_state(m, now)
                /\ result' = Result("process_csv_files", ex.raised, st)
           ELSE /\ UNCHANGED <<export_files, last_export, state_file>>
                /\ result' = Result("process_csv_files", FALSE, st)
        /\ UNCHANGED <<excluded_components, now>>

\* remove_excluded_components that raises when it comes to USER_LOG, with
\* the datasets visited before it filtered.
remove_excluded_components_raising_at_user_log ==
    IF DOMAIN data \subseteq DOMAIN stats /\ "USER_LOG" \notin DOMAIN data
    THEN LET f == [n \in DOMAIN data |->
                      filter_dataset(stats[n], data[n], excluded_components, now)]
             new_data == [n \in DOMAIN data |-> f[n].records]
             new_stats == [n \in DOMAIN stats |->
                              IF n \in DOMAIN data THEN f[n].stats ELSE stats[n]]
         IN  /\ data' = new_data
             /\ stats' = new_stats
             /\ state_file' =
                    _save_state([data |-> new_data, stats |-> new_stats,
                                 processed_files |-> processed_files,
                                 excluded_components |-> excluded_components], now)
             /\ result' = Result("remove_excluded_components", FALSE, NoFiles)
             /\ UNCHANGED <<processed_files, excluded_components, export_files,
                            last_export, now>>
    ELSE \E done \in SUBSET ((DOMAIN data \cap DOMAIN stats) \ {"USER_LOG"}) :
             LET f == [n \in done |->
                          filter_dataset(stats[n], data[n], excluded_components, now)]
             IN  /\ data' = [n \in DOMAIN data |->
                                IF n \in done THEN f[n].records ELSE data[n]]
                 /\ stats' = [n \in DOMAIN stats |->
                                 IF n \in done THEN f[n].stats ELSE stats[n]]
                 /\ result' = Result("remove_excluded_components", TRUE, NoFiles)
                 /\ UNCHANGED <<processed_files, excluded_components, state_file,
                                export_files, last_export, now>>

\* remove_excluded_components (data_storage.py:152-189). self.stats[name]
\* raises KeyError for a dataset without statistics; the datasets visited
\* before it stay filtered and the snapshot is not written.
remove_excluded_components ==
    IF DOMAIN data \subseteq DOMAIN stats
    THEN LET f == [n \in DOMAIN data |->
                      filter_dataset(stats[n], data[n], excluded_components, now)]
             new_data == [n \in DOMAIN data |-> f[n].records]
             new_stats == [n \in DOMAIN stats |->
                              IF n \in DOMAIN data THEN f[n].stats ELSE stats[n]]
         IN  /\ data' = new_data
             /\ stats' = new_stats
             /\ state_file' =
                    _save_state([data |-> new_data, stats |-> new_stats,
                                 processed_files |-> processed_files,
                                 excluded_components |-> excluded_components], now)
             /\ result' = Result("remove_excluded_components", FALSE, NoFiles)
             /\ UNCHANGED <<processed_files, excluded_components, export_files,
                            last_export, now>>
    ELSE \E done \in SUBSET (DOMAIN data \cap DOMAIN stats) :
             LET f == [n \in done |->
                          filter_dataset(stats[n], data[n], excluded_components, now)]
             IN  /\ data' = [n \in DOMAIN data |->
                                IF n \in done THEN f[n].records ELSE data[n]]
                 /\ stats' = [n \in DOMAIN stats |->
                                 IF n \in done THEN f[n].stats ELSE stats[n]]
                 /\ result' = Result("remove_excluded_components", TRUE, NoFiles)
                 /\ UNCHANGED <<processed_files, excluded_components, state_file,
                                export_files, last_export, now>>

\* rename_user_column (data_storage.py:191-212): the records are renamed in
\* place, then the export is written, then the snapshot; an export that raises
\* ends the call before _save_state.
rename_user_column ==
    LET m == [data |-> renamed_data(data), stats |-> stats,
              processed_files |-> processed_files,
              excluded_components |-> excluded_components]
        ex == _save_json_records(m, Exports, now)
    IN  /\ data' = m.data
        /\ export_files' = ex.files
        /\ last_export' = ex.last
        /\ state_file' = IF ex.raised THEN state_file ELSE _save_state(m, now)
        /\ result' = Result("rename_user_column", ex.raised, NoFiles)
        /\ UNCHANGED <<stats, processed_files, excluded_components, now>>

\* clear_state (data_storage.py:351-353)
clear_state ==
    LET m == _initialize_new_state(Mem)
    IN  /\ data' = m.data
        /\ stats' = m.stats
        /\ processed_files' = m.processed_files
        /\ excluded_components' = m.excluded_components
        /\ state_file' = _save_state(m, now)
        /\ result' = Result("clear_state", FALSE, NoFiles)
        /\ UNCHANGED <<export_files, last_export, now>>

\* The Save State button (gui.py:470-477) calls _save_state on the current
\* memory.
save_state ==
    /\ state_file' = _save_state(Mem, now)
    /\ result' = Result("save_state", FALSE, NoFiles)
    /\ UNCHANGED <<data, stats, processed_files, excluded_components,
                   export_files, last_export, now>>

\* The calls on the DataProcessor alone: the GUI's attributes stay as they
\* are.
Next ==
    \/ Tick /\ UNCHANGED gui_vars
    \/ __init__ /\ UNCHANGED gui_vars
    \/ \E file_paths \in Batches :
          process_csv_files(file_paths) /\ UNCHANGED gui_vars
    \/ remove_excluded_components /\ UNCHANGED gui_vars
    \/ rename_user_column /\ UNCHANGED gui_vars
    \/ clear_state /\ UNCHANGED gui_vars
    \/ save_state /\ UNCHANGED gui_vars

Spec == Init /\ [][Next]_vars

\* The same program started on a directory that holds ConfiguredSnapshot.
SpecConfigured == InitConfigured /\ [][Next]_vars

\* ------------------------------------------------------------ GUI handlers
\* refresh_state (gui.py:492-505): the summary it gets from get_state_summary
\* and puts on display.
refresh_state == Reply("get_state_summary", get_state_summary(Mem))

\* The selections the operator makes in the file dialog of load_csv_files.
Selections ==
    {<<"./activity_log.csv">>, <<"user_log.csv">>, <<"component_codes.csv">>,
     <<"backup/user_log.csv">>,
     <<"./activity_log.csv", "user_log.csv", "component_codes.csv">>}

\* load_csv_files (gui.py:249-277) with a selection: loaded_files is stored
\* before the files are read for the raw data view.
load_csv_files(files) ==
    /\ loaded_files' = files
    /\ messagebox' =
         IF \A i \in DOMAIN files : Readable(NormPath(files[i]))
         THEN Dialog("load_csv_files", "info", Text("Successfully loaded CSV files!"))
         ELSE Dialog("load_csv_files", "error", Text("Error loading CSV files"))
    /\ returned' = None
    /\ UNCHANGED <<data, stats, processed_files, excluded_components,
                   state_file, export_files, last_export, now, result,
                   excluded_var, merged_df, reshaped_df, interaction_df>>

\* A handler that shows an error and does nothing else.
Rejected(handler, text) ==
    /\ messagebox' = Dialog(handler, "error", text)
    /\ returned' = None
    /\ UNCHANGED <<data, stats, processed_files, excluded_components,
                   state_file, export_files, last_export, now, result,
                   loaded_files, excluded_var, merged_df, reshaped_df, interaction_df>>

\* process_csv (gui.py:360-373)
process_csv ==
    IF loaded_files = << >>
    THEN Rejected("process_csv", Text("Please load CSV files first!"))
    ELSE /\ process_csv_files(loaded_files)
         /\ messagebox' =
              IF result'.raised
              THEN Dialog("process_csv", "error",
                          Error("Error saving JSON records: ",
                                "Object of type Timestamp is not JSON serializable",
                                {}))
              ELSE Dialog("process_csv", "info",
                          Text("CSV files processed successfully!"))
         /\ returned' = IF result'.raised THEN None ELSE refresh_state'
         /\ UNCHANGED <<loaded_files, excluded_var, merged_df, reshaped_df, interaction_df>>

\* remove_components (gui.py:375-388)
remove_components ==
    IF data = EmptyDict
    THEN Rejected("remove_components", Text("Please process CSV files first!"))
    ELSE /\ remove_excluded_components
         /\ messagebox' =
              IF result'.raised
              THEN Dialog("remove_components", "error",
                          Error("Error removing excluded components: ",
                                "KeyError", {}))
              ELSE Dialog("remove_components", "info",
                          Text("Excluded components removed successfully!"))
         /\ returned' = IF result'.raised THEN None ELSE refresh_state'
         /\ UNCHANGED <<loaded_files, excluded_var, merged_df, reshaped_df, interaction_df>>

\* rename_columns (gui.py:390-403)
rename_columns ==
    IF data = EmptyDict
    THEN Rejected("rename_columns", Text("Please process CSV files first!"))
    ELSE /\ rename_user_column
         /\ messagebox' =
              IF result'.raised
              THEN Dialog("rename_columns", "error",
                          Error("Error renaming user column: ",
                                "Error saving JSON records: ", {}))
              ELSE Dialog("rename_columns", "info",
                          Text("Columns renamed successfully!"))
         /\ returned' = IF result'.raised THEN None ELSE refresh_state'
         /\ UNCHANGED <<loaded_files, excluded_var, merged_df, reshaped_df, interaction_df>>

\* merge_data (gui.py:314-327): merged_df is assigned only when
\* merge_datasets returns.
merge_data ==
    IF data = EmptyDict
    THEN Rejected("merge_data", Text("Please load data files first!"))
    ELSE \E r \in {merge_datasets(data)} :
           /\ merged_df' = IF r.raised THEN merged_df ELSE r.table
           /\ messagebox' =
                IF r.raised THEN Dialog("merge_data", "error", r.error)
                ELSE Dialog("merge_data", "info",
                            Text("Merged records successfully!"))
           /\ returned' = None
           /\ UNCHANGED <<data, stats, processed_files, excluded_components,
                          state_file, export_files, last_export, now, result,
                          loaded_files, excluded_var, reshaped_df, interaction_df>>

\* reshape_data of the GUI (gui.py:329-343): the processor's reshape_data
\* works on the object merged_df refers to.
gui_reshape_data ==
    IF merged_df = None
    THEN Rejected("reshape_data", Text("Please merge datasets first!"))
    ELSE \E r \in {reshape_data(merged_df)} :
           /\ merged_df' = r.df
           /\ reshaped_df' = IF r.raised THEN reshaped_df ELSE r.table
           /\ messagebox' =
                IF r.raised THEN Dialog("reshape_data", "error", r.error)
                ELSE Dialog("reshape_data", "info",
                            Text("Data reshaped successfully!"))
           /\ returned' = None
           /\ UNCHANGED <<data, stats, processed_files, excluded_components,
                          state_file, export_files, last_export, now, result,
                          loaded_files, excluded_var, interaction_df>>

\* count_interactions of the GUI (gui.py:345-358)
gui_count_interactions ==
    IF merged_df = None
    THEN Rejected("count_interactions", Text("Please merge datasets first!"))
    ELSE \E r \in {count_interactions(merged_df)} :
           /\ interaction_df' = IF r.raised THEN interaction_df ELSE r.table
           /\ messagebox' =
                IF r.raised THEN Dialog("count_interactions", "error", r.error)
                ELSE Dialog("count_interactions", "info",
                            Text("Interaction counts generated successfully!"))
           /\ returned' = None
           /\ UNCHANGED <<data, stats, processed_files, excluded_components,
                          state_file, export_files, last_export, now, result,
                          loaded_files, excluded_var, merged_df, reshaped_df>>

\* gui_clear_state that leaves the merged table in place.
gui_clear_state_keeping_merged ==
    /\ clear_state
    /\ reshaped_df' = None
    /\ interaction_df' = None
    /\ returned' = refresh_state'
    /\ UNCHANGED <<loaded_files, excluded_var, merged_df, messagebox>>

\* clear_state of the GUI (gui.py:479-490), the operator having answered yes.
gui_clear_state ==
    /\ clear_state
    /\ merged_df' = None
    /\ reshaped_df' = None
    /\ interaction_df' = None
    /\ returned' = refresh_state'
    /\ UNCHANGED <<loaded_files, excluded_var, messagebox>>

\* save_state of the GUI (gui.py:470-477)
gui_save_state ==
    /\ save_state
    /\ returned' = refresh_state'
    /\ UNCHANGED <<loaded_files, excluded_var, merged_df, reshaped_df, interaction_df,
                   messagebox>>

\* The program is closed and opened again: DataAnalysisGUI.__init__
\* (gui.py:13-29) builds a DataProcessor on the same directory and starts
\* with no files loaded and no derived table.
gui_init ==
    /\ __init__
    /\ loaded_files' = << >>
    /\ merged_df' = None
    /\ reshaped_df' = None
    /\ interaction_df' = None
    /\ messagebox' = None
    /\ excluded_var' = "System,Folder"
    /\ returned' = None

\* What the operator can have typed into the entry "Excluded Components".
EntryTexts == {"System,Folder", "Forum"}

\* The operator edits the entry "Excluded Components" (gui.py:78-81): the
\* text goes into excluded_var, which no handler reads.
edit_excluded_components(text) ==
    /\ excluded_var' = text
    /\ UNCHANGED <<data, stats, processed_files, excluded_components,
                   state_file, export_files, last_export, now, result,
                   loaded_files, merged_df, reshaped_df, interaction_df,
                   messagebox, returned>>

\* The Refresh button (gui.py:139): refresh_state alone.
gui_refresh_state ==
    /\ returned' = refresh_state
    /\ UNCHANGED <<data, stats, processed_files, excluded_components,
                   state_file, export_files, last_export, now, result,
                   loaded_files, excluded_var, merged_df, reshaped_df, interaction_df,
                   messagebox>>

\* The names a caller asks get_data for: a dataset the files can give, a name
\* no file gives, or none.
QueryNames == {"ACTIVITY_LOG", "GRADES", ""}

\* A call of get_data(dataset_name) by code that holds the DataProcessor
\* (data_storage.py:338-341).
get_data_call(dataset_name) ==
    \E r \in {get_data(data, dataset_name)} :
        /\ data' = r.data
        /\ returned' = Reply("get_data", r.value)
        /\ UNCHANGED <<stats, processed_files, excluded_components, state_file,
                       export_files, last_export, now, result, loaded_files, excluded_var,
                       merged_df, reshaped_df, interaction_df, messagebox>>

GuiNext ==
    \/ \E files \in Selections : load_csv_files(files)
    \/ process_csv
    \/ remove_components
    \/ rename_columns
    \/ merge_data
    \/ gui_reshape_data
    \/ gui_count_interactions
    \/ gui_clear_state
    \/ gui_save_state
    \/ gui_init

\* One session after another of the GUI on a directory that is fresh at first.
\* The handlers run within one second of the clock: none of them decides
\* anything by the time.
GuiSpec == Init /\ [][GuiNext]_vars

\* The selections of the sessions in which the state is also queried and the
\* entry of the excluded components edited.
QuerySelections ==
    {<<"./activity_log.csv">>,
     <<"./activity_log.csv", "user_log.csv", "component_codes.csv">>}

QueryNext ==
    \/ \E files \in QuerySelections : load_csv_files(files)
    \/ process_csv
    \/ remove_components
    \/ rename_columns
    \/ merge_data
    \/ gui_reshape_data
    \/ gui_count_interactions
    \/ gui_clear_state
    \/ gui_save_state
    \/ gui_init
    \/ gui_refresh_state
    \/ \E dataset_name \in QueryNames : get_data_call(dataset_name)
    \/ \E text \in EntryTexts : edit_excluded_components(text)

\* Sessions of the GUI in which the operator also presses Refresh and edits
\* the entry of the excluded components, and the datasets are read with
\* get_data.
QuerySpec == Init /\ [][QueryNext]_vars

\* ------------------------------------------------------------------- claims
\* C1: in every reachable state, process_csv_files called with a path that is
\* in the registry already (in any spelling str(Path(..)) maps to it) leaves
\* the dataset map, the statistics and the registry exactly as they were.
C1_RegisteredPathIsNoOp ==
    [][\A file_path \in RawPaths :
          (NormPath(file_path) \in processed_files
           /\ process_csv_files(<<file_path>>))
              => (data' = data /\ stats' = stats
                  /\ processed_files' = processed_files)]_vars

\* A registered file was handed in again after a filter had shortened its
\* dataset, and the call skipped it.
C1_Witness ==
    /\ result.op = "process_csv_files"
    /\ result.skipped /\ ~result.newly_processed /\ ~result.failed
    /\ \E n \in DOMAIN stats :
          /\ "filtered_rows" \in DOMAIN stats[n]
          /\ Len(data[n]) < stats[n].original_rows

\* C2: after remove_excluded_components completes, every dataset has
\* filtered_rows + removed_rows equal to the original_rows in effect before
\* the call (total_rows when original_rows is absent).
C2_FilterAccounting ==
    [][(remove_excluded_components /\ ~result'.raised)
          => \A n \in DOMAIN data' :
                stats'[n].filtered_rows + stats'[n].removed_rows
                    = Get(stats[n], "original_rows",
                          Get(stats[n], "total_rows", 0))]_vars

\* A filter has run, in a later second than the ingestion, and removed rows.
C2_Witness ==
    /\ result.op = "remove_excluded_components" /\ ~result.raised
    /\ \E n \in DOMAIN stats :
          /\ "removed_rows" \in DOMAIN stats[n]
          /\ stats[n].removed_rows > 0
          /\ stats[n].filtered_at > stats[n].processed_at

\* C3 as stated: once a dataset has original_rows, no ingestion, filter or
\* rename call changes it.
C3_OriginalRowsNeverChange ==
    [][(result'.op \in {"process_csv_files", "remove_excluded_components",
                        "rename_user_column"})
          => \A n \in DOMAIN stats :
                "original_rows" \in DOMAIN stats[n]
                    => /\ n \in DOMAIN stats'
                       /\ "original_rows" \in DOMAIN stats'[n]
                       /\ stats'[n].original_rows = stats[n].original_rows]_vars

\* C3 amended: original_rows of a dataset is changed by no filter call, by no
\* rename call, and by no ingestion call that ingests no file under that
\* dataset name (none of the paths it adds to the registry has that
\* upper-cased stem).
C3_OriginalRowsKept ==
    [][\A n \in DOMAIN stats :
          ("original_rows" \in DOMAIN stats[n]
           /\ \/ result'.op \in {"remove_excluded_components",
                                  "rename_user_column"}
              \/ /\ result'.op = "process_csv_files"
                 /\ \A path \in processed_files' \ processed_files :
                       DatasetName(path) # n)
              => /\ n \in DOMAIN stats'
                 /\ "original_rows" \in DOMAIN stats'[n]
                 /\ stats'[n].original_rows = stats[n].original_rows]_vars

\* A dataset was filtered, then renamed, and still carries the row count of
\* its ingestion although it holds fewer records now.
C3_Witness ==
    /\ result.op = "rename_user_column"
    /\ \E n \in DOMAIN stats :
          /\ "filtered_rows" \in DOMAIN stats[n]
          /\ stats[n].original_rows > Len(data[n])
          /\ \E i \in DOMAIN data[n] : new_key \in DOMAIN data[n][i]

\* The snapshot file holds exactly the current in-memory datasets, statistics,
\* registry and exclusion set.
SnapshotHolds ==
    /\ state_file.kind = "json"
    /\ state_file.data = data
    /\ state_file.stats = stats
    /\ set(state_file.processed_files) = processed_files
    /\ set(state_file.excluded_components) = excluded_components

\* The export file written last is complete and holds the current dataset
\* map, statistics, processed-file list, exclusion set and the rename map.
ExportHolds ==
    /\ last_export.kind = "json"
    /\ last_export.name \in export_files
    /\ last_export.data = data
    /\ last_export.metadata.file_statistics = stats
    /\ set(last_export.metadata.processed_files) = processed_files
    /\ set(last_export.metadata.excluded_components) = excluded_components
    /\ last_export.metadata.column_mappings = column_mappings

\* C4 as stated: after every mutating operation that completes without
\* raising (an ingestion call that processed at least one file, filter,
\* rename, reset) the snapshot file holds exactly the in-memory state.
C4_WriteThrough ==
    (/\ result.op \in {"process_csv_files", "remove_excluded_components",
                       "rename_user_column", "clear_state"}
     /\ ~result.raised
     /\ result.op = "process_csv_files" => result.newly_processed)
        => SnapshotHolds

\* C5: in every reachable state whose dataset map json.dump can encode,
\* _save_state followed by _load_state (a restart) gives back the same
\* datasets, statistics, registry and exclusion set.
C5_SaveLoadRoundTrip ==
    Serializable(data)
        => LET f == _save_state(Mem, now)
           IN  /\ f.kind = "json"
               /\ _load_state(Defaults, f, now).mem = Mem
               /\ _load_state(Defaults, f, now).file = f

\* The program was restarted on a snapshot that holds two datasets, one of
\* them filtered, and a registry of two paths.
C5_Witness ==
    /\ result.op = "__init__"
    /\ state_file.kind = "json"
    /\ Cardinality(DOMAIN data) = 2
    /\ Cardinality(processed_files) >= 2
    /\ \E n \in DOMAIN stats : "filtered_rows" \in DOMAIN stats[n]

\* C6 as stated: every ingestion, filter or rename call that completes
\* without raising and changes the dataset map writes an export artifact
\* named by the current timestamp that holds the dataset map, statistics,
\* processed-file list, exclusion set and rename map.
C6_EveryStepExports ==
    [][(/\ result'.op \in {"process_csv_files", "remove_excluded_components",
                            "rename_user_column"}
        /\ ~result'.raised
        /\ data' # data)
          => (ExportHolds' /\ last_export'.name = strftime(now))]_vars

\* C7 as stated, for the exports that write their artifact in full: none of
\* them goes to a file an earlier export wrote.
C7_ExportsAppendOnly ==
    [][(last_export' # last_export /\ last_export'.kind = "json")
          => last_export'.name \notin export_files]_vars

\* C8 as stated: an ingestion call that ingests at least one file writes the
\* snapshot and an export artifact; one that ingests none writes neither.
C8_IngestionPersists ==
    [][result'.op = "process_csv_files"
          => IF result'.newly_processed
             THEN ~result'.raised /\ SnapshotHolds' /\ ExportHolds'
             ELSE UNCHANGED <<state_file, export_files, last_export>>]_vars

\* Position i of batch b is a file the loop will fail on: not registered and
\* not readable.
FailsAt(b, i) ==
    NormPath(b[i]) \notin processed_files /\ ~Readable(NormPath(b[i]))

\* Position j of batch b is a file the loop will ingest: readable and not
\* registered.
IngestedAt(b, j) ==
    NormPath(b[j]) \notin processed_files /\ Readable(NormPath(b[j]))

\* C9: when a file of a batch cannot be read, the loop of process_csv_files
\* run from any reachable state leaves that path out of the registry, leaves
\* the dataset and statistics under its name as before (unless another file
\* of the batch is ingested under that name), and still ingests every other
\* unregistered readable file of the batch, those after it included; a call
\* with a failed file raises only when its export does.
C9_FailureIsolation ==
    /\ \A b \in Batches : \A i \in DOMAIN b :
          FailsAt(b, i) =>
            LET st == process_loop([data |-> data, stats |-> stats,
                                    processed_files |-> processed_files,
                                    newly_processed |-> FALSE,
                                    skipped |-> FALSE, failed |-> FALSE],
                                   b, now)
                n == DatasetName(NormPath(b[i]))
            IN  /\ st.failed
                /\ NormPath(b[i]) \notin st.processed_files
                /\ (\A j \in DOMAIN b :
                       IngestedAt(b, j) => DatasetName(NormPath(b[j])) # n)
                      => /\ (n \in DOMAIN st.data) = (n \in DOMAIN data)
                         /\ (n \in DOMAIN st.stats) = (n \in DOMAIN stats)
                         /\ n \in DOMAIN data => st.data[n] = data[n]
                         /\ n \in DOMAIN stats => st.stats[n] = stats[n]
                /\ \A j \in DOMAIN b :
                       IngestedAt(b, j)
                         => /\ NormPath(b[j]) \in st.processed_files
                            /\ DatasetName(NormPath(b[j])) \in DOMAIN st.data
                            /\ st.newly_processed
    /\ (result.op = "process_csv_files" /\ result.failed /\ result.raised)
          => (result.newly_processed /\ last_export.kind = "truncated")

\* A call met a file it could not read, ingested another file of the same
\* batch and returned normally.
C9_Witness ==
    /\ result.op = "process_csv_files"
    /\ result.failed /\ result.newly_processed /\ ~result.raised
    /\ "broken/activity_log.csv" \notin processed_files
    /\ "archive/user_log.csv" \in processed_files

\* C10: a process_csv_files call on one unregistered readable file leaves
\* under its upper-cased stem exactly that file's cleaned records, whatever
\* was stored there before, statistics with total_rows = original_rows = the
\* number of stored records, and the path in the registry.
C10_IngestedDataset ==
    [][\A file_path \in RawPaths :
          LET path == NormPath(file_path)
              n == DatasetName(path)
          IN  (path \notin processed_files /\ Readable(path)
               /\ process_csv_files(<<file_path>>))
                  => /\ n \in DOMAIN data' /\ n \in DOMAIN stats'
                     /\ data'[n] = CleanCsv(path)
                     /\ stats'[n].total_rows = Len(data'[n])
                     /\ stats'[n].original_rows = Len(data'[n])
                     /\ path \in processed_files']_vars

\* archive/user_log.csv was ingested over the records user_log.csv had left
\* under USER_LOG.
C10_Witness ==
    /\ result.op = "process_csv_files" /\ result.newly_processed
    /\ {"user_log.csv", "archive/user_log.csv"} \subseteq processed_files
    /\ "USER_LOG" \in DOMAIN data
    /\ data["USER_LOG"] = CleanCsv("archive/user_log.csv")
    /\ stats["USER_LOG"].total_rows = 2

\* The positions of the records of a dataset that a filter with exclusion set
\* excluded keeps: those without a Component key and those whose Component is
\* not in the set.
KeptPositions(records, excluded) ==
    {i \in DOMAIN records :
        ~("Component" \in DOMAIN records[i]
          /\ records[i]["Component"] \in excluded)}

\* C11: a remove_excluded_components call that completes leaves in every
\* dataset exactly the records at the kept positions, in their original order
\* (the j-th record afterwards is the record at the j-th kept position), and
\* afterwards no record of any dataset has a Component in the exclusion set.
C11_FilterKeepsSubsequence ==
    [][(remove_excluded_components /\ ~result'.raised)
          => /\ DOMAIN data' = DOMAIN data
             /\ \A n \in DOMAIN data :
                   LET kept == KeptPositions(data[n], excluded_components)
                   IN  /\ Len(data'[n]) = Cardinality(kept)
                       /\ \A i \in kept :
                             data'[n][Cardinality({k \in kept : k <= i})]
                                 = data[n][i]
             /\ \A n \in DOMAIN data' : \A j \in DOMAIN data'[n] :
                   "Component" \in DOMAIN data'[n][j]
                       => data'[n][j]["Component"] \notin excluded_components']_vars

\* A filter has dropped the middle record of ACTIVITY_LOG, kept the other two
\* in order, and kept the records of a USER_LOG that has no Component column.
C11_Witness ==
    /\ result.op = "remove_excluded_components" /\ ~result.raised
    /\ {"ACTIVITY_LOG", "USER_LOG"} \subseteq DOMAIN data
    /\ Len(data["ACTIVITY_LOG"]) = 2
    /\ data["ACTIVITY_LOG"][1]["Component"] = "Quiz"
    /\ data["ACTIVITY_LOG"][2]["Component"] = "Forum"
    /\ stats["ACTIVITY_LOG"].original_rows = 3
    /\ Len(data["USER_LOG"]) = 3
    /\ \A i \in DOMAIN data["USER_LOG"] :
          "Component" \notin DOMAIN data["USER_LOG"][i]

\* C12 as stated: a filter run on a dataset that was filtered already, with
\* no ingestion of it in between, computes removed_rows from the row count
\* the dataset has when the call begins.
C12_RerunRebasesRemovedRows ==
    [][(remove_excluded_components /\ ~result'.raised)
          => \A n \in DOMAIN data :
                "filtered_rows" \in DOMAIN stats[n]
                    => stats'[n].removed_rows
                           = Len(data[n]) - stats'[n].filtered_rows]_vars

\* C12 amended: a filter run on a dataset that was filtered already computes
\* removed_rows from the row count recorded at ingestion, so it is the number
\* of records dropped since ingestion, and the value the run before gave it.
C12_RerunCountsFromIngestion ==
    [][(remove_excluded_components /\ ~result'.raised)
          => \A n \in DOMAIN data :
                "filtered_rows" \in DOMAIN stats[n]
                    => /\ stats'[n].removed_rows
                             = stats[n].total_rows - Len(data'[n])
                       /\ stats'[n].removed_rows = stats[n].removed_rows]_vars

\* A filter has run in second 1 on a dataset whose export of second 0 shows
\* it filtered already, down to the records it still has, and removed_rows is
\* still positive.
C12_Witness ==
    /\ result.op = "remove_excluded_components" /\ ~result.raised
    /\ last_export.kind = "json"
    /\ \E n \in DOMAIN stats \cap DOMAIN last_export.metadata.file_statistics :
          LET before == last_export.metadata.file_statistics[n]
          IN  /\ "filtered_rows" \in DOMAIN before
              /\ "filtered_rows" \in DOMAIN stats[n]
              /\ before.processed_at = stats[n].processed_at
              /\ before.filtered_at < stats[n].filtered_at
              /\ before.filtered_rows = Len(data[n])
              /\ stats[n].removed_rows > 0

\* C13: a rename_user_column call leaves every dataset with as many records
\* as before; a record that had the source key has lost it, holds the source
\* key's value under User_ID (whatever User_ID held) and keeps every other
\* field; a record without the source key is unchanged; and a call made when
\* no record has the source key changes no dataset.
C13_RenameMovesUserColumn ==
    [][rename_user_column
          => /\ DOMAIN data' = DOMAIN data
             /\ \A n \in DOMAIN data :
                   /\ Len(data'[n]) = Len(data[n])
                   /\ \A i \in DOMAIN data[n] :
                         LET before == data[n][i]
                             after == data'[n][i]
                         IN  IF old_key \in DOMAIN before
                             THEN /\ DOMAIN after
                                       = ((DOMAIN before) \ {old_key})
                                             \cup {new_key}
                                  /\ after[new_key] = before[old_key]
                                  /\ \A k \in (DOMAIN before) \ {old_key, new_key} :
                                        after[k] = before[k]
                             ELSE after = before
             /\ (\A n \in DOMAIN data : \A i \in DOMAIN data[n] :
                     old_key \notin DOMAIN data[n][i]) => data' = data]_vars

\* A rename has replaced the User_ID "9" of the first record of
\* archive/user_log.csv by the source column's "5".
C13_Witness ==
    /\ result.op = "rename_user_column"
    /\ "USER_LOG" \in DOMAIN data
    /\ Len(data["USER_LOG"]) = 2
    /\ data["USER_LOG"][1] =
          [Time |-> "09:00", Component |-> "Folder", User_ID |-> "5"]

\* C14: __init__'s _load_state never raises; on a snapshot file that cannot
\* be parsed it leaves datasets, statistics and registry empty and writes the
\* empty state to the snapshot; on a valid snapshot the file's datasets,
\* statistics, registry and exclusion set become the memory.
C14_LoadNeverRaises ==
    [][__init__
          => /\ ~result'.raised
             /\ state_file.kind = "truncated"
                   => /\ data' = EmptyDict /\ stats' = EmptyDict
                      /\ processed_files' = {}
                      /\ SnapshotHolds'
             /\ state_file.kind = "json"
                   => /\ data' = state_file.data
                      /\ stats' = state_file.stats
                      /\ processed_files' = set(state_file.processed_files)
                      /\ excluded_components'
                            = set(state_file.excluded_components)
                      /\ state_file' = state_file]_vars

\* The program was started on a snapshot cut short by a failed save after an
\* export had been attempted: it printed the load error and holds the empty
\* state, which is also what the snapshot holds now.
C14_Witness ==
    /\ result.op = "__init__" /\ result.failed /\ ~result.raised
    /\ export_files # {}
    /\ data = EmptyDict /\ stats = EmptyDict /\ processed_files = {}
    /\ state_file.kind = "json" /\ state_file.data = EmptyDict

\* C15 as stated: clear_state leaves datasets, statistics and registry empty
\* and the exclusion set at the constructor's default, whatever the state
\* before, and the snapshot holds that state.
C15_ResetClearsEverything ==
    [][clear_state
          => /\ data' = EmptyDict /\ stats' = EmptyDict
             /\ processed_files' = {}
             /\ excluded_components' = DefaultExcluded
             /\ SnapshotHolds']_vars

\* The three datasets merge_datasets works on.
MergeInputs == {"ACTIVITY_LOG", "USER_LOG", "COMPONENT_CODES"}

\* A step that changes nothing of the application state, the files or the
\* derived tables.
NothingMutated ==
    UNCHANGED <<data, stats, processed_files, excluded_components, state_file,
                export_files, last_export, merged_df, reshaped_df,
                interaction_df>>

\* C16 as stated: a merge_datasets call made while one of ACTIVITY_LOG,
\* USER_LOG and COMPONENT_CODES is absent raises an error that names the
\* absent datasets, gives no table and changes nothing of the state.
C16_MergeNamesAbsentDatasets ==
    [][(merge_data /\ data # EmptyDict /\ ~(MergeInputs \subseteq DOMAIN data))
          => /\ messagebox'.kind = "error"
             /\ messagebox'.text.prefix = "Merge operation failed: "
             /\ messagebox'.text.names = MergeInputs \ DOMAIN data
             /\ NothingMutated]_vars

\* C17 as stated: a stage invoked before its prerequisite is rejected with an
\* error and changes nothing: filter while no dataset is ingested, rename
\* while a dataset is not filtered, merge while one of the three datasets is
\* not ingested, reshape and count while there is no merged table.
C17_StageOrderEnforced ==
    [][/\ (remove_components /\ data = EmptyDict)
            => (messagebox'.kind = "error" /\ NothingMutated)
       /\ (rename_columns
            /\ (data = EmptyDict
                \/ \E n \in DOMAIN data : "filtered_rows" \notin DOMAIN stats[n]))
            => (messagebox'.kind = "error" /\ NothingMutated)
       /\ (merge_data /\ ~(MergeInputs \subseteq DOMAIN data))
            => (messagebox'.kind = "error" /\ NothingMutated)
       /\ ((gui_reshape_data \/ gui_count_interactions) /\ merged_df = None)
            => (messagebox'.kind = "error" /\ NothingMutated)]_vars

\* C18: merged_df is set only by a merge that succeeds and is unset at
\* startup and by clear; while it is unset, reshape and count interactions
\* show the "Please merge datasets first!" error and the merged, reshaped and
\* interaction-count tables all stay unset.
C18_NoDerivedTableBeforeMerge ==
    /\ [](merged_df = None => (reshaped_df = None /\ interaction_df = None))
    /\ [][merged_df' # None => ~(gui_init \/ gui_clear_state)]_vars
    /\ [][(merged_df = None /\ merged_df' # None)
             => (messagebox'.kind = "info" /\ merge_data)]_vars
    /\ [][(merged_df = None /\ (gui_reshape_data \/ gui_count_interactions))
             => /\ messagebox'.kind = "error"
                /\ messagebox'.text = Text("Please merge datasets first!")
                /\ merged_df' = None
                /\ reshaped_df' = None
                /\ interaction_df' = None]_vars

\* Reshape was asked for right after a clear that followed an ingestion, and
\* was turned down.
C18_Witness ==
    /\ result.op = "clear_state"
    /\ export_files # {}
    /\ messagebox = Dialog("reshape_data", "error",
                           Text("Please merge datasets first!"))
    /\ merged_df = None /\ reshaped_df = None /\ interaction_df = None

\* C19: a reshape of a merged table that has a User_ID astype(int) cannot
\* convert shows the reshape error and leaves the merged table, the reshaped
\* table computed before, the interaction counts and the application state
\* as they were.
C19_CoercionFailureChangesNothing ==
    [][(/\ gui_reshape_data
        /\ merged_df # None
        /\ HasColumn(merged_df, "User_ID")
        /\ \E i \in DOMAIN merged_df.rows :
              ~Coercible(merged_df.rows[i][ColumnAt(merged_df, "User_ID")]))
          => /\ messagebox'.kind = "error"
             /\ messagebox'.text.prefix = "Reshape operation failed: "
             /\ NothingMutated]_vars

\* A reshape failed on the User_ID "Unknown" of a merged table while the
\* reshaped table of an earlier merge was there, and that table is still
\* there.
C19_Witness ==
    /\ messagebox = Dialog("reshape_data", "error",
                           Error("Reshape operation failed: ",
                                 "cannot convert to int", {}))
    /\ merged_df # None /\ reshaped_df # None
    /\ \E i \in DOMAIN merged_df.rows :
          merged_df.rows[i][ColumnAt(merged_df, "User_ID")] = "Unknown"
    /\ Len(reshaped_df.rows) = 2

\* Row i of table df has a column labelled k that holds v.
Carries(df, i, k, v) ==
    \E j \in DOMAIN df.columns : df.columns[j] = k /\ df.rows[i][j] = v

\* C20 as stated: a merge that returns, made on an ACTIVITY_LOG and a
\* USER_LOG of the same length n and a COMPONENT_CODES with one row per
\* Component at most, returns n rows; row i carries every field of Activity
\* row i and of User row i, the other fields of the COMPONENT_CODES row of its
\* Component (NaN when there is none), and as Month the YYYY-MM of its Date.
C20_MergePairsRowsByPosition ==
    [][(/\ merge_data /\ messagebox'.kind = "info"
        /\ Len(data["ACTIVITY_LOG"]) = Len(data["USER_LOG"])
        /\ \A p, q \in DOMAIN data["COMPONENT_CODES"] :
              data["COMPONENT_CODES"][p]["Component"]
                  = data["COMPONENT_CODES"][q]["Component"] => p = q)
          => LET activity == data["ACTIVITY_LOG"]
                 user == data["USER_LOG"]
                 codes == data["COMPONENT_CODES"]
             IN  /\ Len(merged_df'.rows) = Len(activity)
                 /\ \A i \in DOMAIN activity :
                       /\ \A k \in DOMAIN activity[i] :
                             Carries(merged_df', i, k, activity[i][k])
                       /\ \A k \in DOMAIN user[i] :
                             Carries(merged_df', i, k, user[i][k])
                       /\ \A p \in DOMAIN codes :
                             codes[p]["Component"] = activity[i]["Component"]
                                 => \A k \in DOMAIN codes[p] :
                                       Carries(merged_df', i, k, codes[p][k])
                       /\ (\A p \in DOMAIN codes :
                              codes[p]["Component"] # activity[i]["Component"])
                                 => Carries(merged_df', i, "Code", NaN)
                       /\ Carries(merged_df', i, "Month",
                                  YearMonth(user[i]["Date"]))]_vars

\* The cells of the column of table df labelled c, one per row.
Column(df, c) == [i \in DOMAIN df.rows |-> df.rows[i][ColumnAt(df, c)]]

\* Whether a step is a reshape that returned a table for a merged table whose
\* User_ID cells can all be converted to int.
ReshapeReturns ==
    /\ gui_reshape_data
    /\ merged_df # None
    /\ HasColumn(merged_df, "User_ID")
    /\ \A i \in DOMAIN merged_df.rows : Coercible(Column(merged_df, "User_ID")[i])
    /\ messagebox'.kind = "info"

\* C21 as stated: reshape of a merged table with integer-coercible User_ID
\* returns exactly one row per (User_ID, Month) pair that occurs in the merged
\* table, one column per distinct Component, every cell the number of merged
\* rows with the row's User_ID and Month and the column's Component,
\* Total_Interactions the sum of the row's component cells, and the rows in
\* ascending order of User_ID, then Month.
C21_ReshapeResult ==
    [][ReshapeReturns
          => LET u == Column(merged_df, "User_ID")
                 m == Column(merged_df, "Month")
                 c == Column(merged_df, "Component")
                 t == reshaped_df'
                 n == Len(t.columns)
                 pairs == {<<u[i], m[i]>> : i \in DOMAIN merged_df.rows}
                 components == {c[i] : i \in DOMAIN merged_df.rows} \ {NaN}
             IN  /\ t.columns[1] = "User_ID" /\ t.columns[2] = "Month"
                 /\ t.columns[n] = "Total_Interactions"
                 /\ {t.columns[j] : j \in 3..(n - 1)} = components
                 /\ n = Cardinality(components) + 3
                 /\ {<<t.rows[k][1], t.rows[k][2]>> : k \in DOMAIN t.rows} = pairs
                 /\ Len(t.rows) = Cardinality(pairs)
                 /\ \A k \in DOMAIN t.rows :
                       /\ \A j \in 3..(n - 1) :
                             t.rows[k][j] =
                                 Cardinality({i \in DOMAIN merged_df.rows :
                                                 /\ u[i] = t.rows[k][1]
                                                 /\ m[i] = t.rows[k][2]
                                                 /\ c[i] = t.columns[j]})
                       /\ t.rows[k][n] = sum(SubSeq(t.rows[k], 3, n - 1))
                 /\ \A k, l \in DOMAIN t.rows :
                       k < l => \/ sort_key(t.rows[k][1]) < sort_key(t.rows[l][1])
                                \/ /\ t.rows[k][1] = t.rows[l][1]
                                   /\ sort_key(t.rows[k][2])
                                          < sort_key(t.rows[l][2])]_vars

\* Whether a step is a count_interactions that returned a table.
CountReturns ==
    /\ gui_count_interactions
    /\ merged_df # None
    /\ messagebox'.kind = "info"

\* C22 as stated: count_interactions returns exactly one row per (User_ID,
\* Component, Month) combination that occurs in the merged table, with
\* Interaction_Count the number of merged rows of that combination, never a
\* row with count zero, and counts that sum to the number of merged rows.
C22_CountInteractionsResult ==
    [][CountReturns
          => LET u == Column(merged_df, "User_ID")
                 c == Column(merged_df, "Component")
                 m == Column(merged_df, "Month")
                 t == interaction_df'
                 keys == {<<u[i], c[i], m[i]>> : i \in DOMAIN merged_df.rows}
             IN  /\ t.columns = <<"User_ID", "Component", "Month",
                                  "Interaction_Count">>
                 /\ {SubSeq(t.rows[k], 1, 3) : k \in DOMAIN t.rows} = keys
                 /\ Len(t.rows) = Cardinality(keys)
                 /\ \A k \in DOMAIN t.rows :
                       /\ t.rows[k][4] =
                             Cardinality({i \in DOMAIN merged_df.rows :
                                             <<u[i], c[i], m[i]>>
                                                 = SubSeq(t.rows[k], 1, 3)})
                       /\ t.rows[k][4] > 0
                 /\ sum([k \in DOMAIN t.rows |-> t.rows[k][4]])
                        = Len(merged_df.rows)]_vars

\* C23: merge, reshape, count interactions, get_data and get_state_summary
\* leave the dataset map, the statistics, the registry, the exclusion set and
\* the snapshot file as they were; get_data for a name that is no dataset
\* returns an empty list under that name and does not add the name.
C23_QueriesAreReadOnly ==
    /\ [][(\/ merge_data
           \/ gui_reshape_data
           \/ gui_count_interactions
           \/ gui_refresh_state
           \/ \E dataset_name \in QueryNames : get_data_call(dataset_name))
             => UNCHANGED <<data, stats, processed_files, excluded_components,
                            state_file>>]_vars
    /\ [][\A dataset_name \in QueryNames \ {""} :
             (get_data_call(dataset_name) /\ dataset_name \notin DOMAIN data)
                => /\ returned'.value = [x \in {dataset_name} |-> << >>]
                   /\ dataset_name \notin DOMAIN data']_vars

\* get_data was asked for GRADES, which is no dataset, after a merge, a
\* reshape that converted User_ID in the merged table and a count: it gave an
\* empty list, and the three datasets are the only ones.
C23_Witness ==
    /\ returned = Reply("get_data", [x \in {"GRADES"} |-> << >>])
    /\ DOMAIN data = MergeInputs
    /\ merged_df # None /\ reshaped_df # None /\ interaction_df # None
    /\ "User_ID" \in merged_df.ints

\* C24 as stated: the summary a handler got from get_state_summary gives the
\* size of the registry, the sum of the record counts of all datasets, the
\* names of the datasets, and as last_updated 'Never' only while no snapshot
\* was ever written, otherwise the last_updated of the latest snapshot.
C24_SummaryReportsState ==
    (returned # None /\ returned.query = "get_state_summary")
        => LET s == returned.value
           IN  /\ s.processed_files = Cardinality(processed_files)
               /\ s.total_records = total_records(data, DOMAIN data)
               /\ set(s.datasets) = DOMAIN data
               /\ Len(s.datasets) = Cardinality(DOMAIN data)
               /\ s.last_updated = "Never" => state_file = Absent
               /\ state_file.kind = "json"
                     => s.last_updated = state_file.last_updated

\* C25 as stated: when a save fails part-way through its write after an
\* earlier save succeeded, a load made next yields the state the earlier save
\* wrote, not the empty state.
C25_FailedSaveKeepsSnapshot ==
    [][(state_file.kind = "json" /\ state_file'.kind = "truncated")
          => _load_state(Defaults, state_file', now').mem
                 = _load_state(Defaults, state_file, now).mem]_vars

\* Dataset n was filtered by the step: its records are those of before whose
\* Component is not excluded, and its statistics are those of this filter.
FilteredBy(n) ==
    /\ data'[n] = SelectSeq(data[n],
                            LAMBDA r : Get(r, "Component", NaN)
                                           \notin excluded_components)
    /\ "filtered_rows" \in DOMAIN stats'[n]
    /\ stats'[n].filtered_rows = Len(data'[n])
    /\ stats'[n].filtered_at = isoformat(now)

\* Dataset n was renamed by the step: no record has the old user column, and
\* what it held is under User_ID.
RenamedBy(n) ==
    /\ Len(data'[n]) = Len(data[n])
    /\ \A i \in DOMAIN data[n] :
          /\ old_key \notin DOMAIN data'[n][i]
          /\ old_key \in DOMAIN data[n][i]
                => /\ data'[n][i][new_key] = data[n][i][old_key]
                   /\ DOMAIN data'[n][i]
                          = (DOMAIN data[n][i] \ {old_key}) \cup {new_key}
          /\ old_key \notin DOMAIN data[n][i] => data'[n][i] = data[n][i]

\* C26: a call of remove_excluded_components or rename_user_column either
\* processes every dataset, or raises and leaves every dataset and its
\* statistics as they were; after no call are some datasets processed and
\* others not.
C26_AllDatasetsOrNone ==
    [][/\ remove_excluded_components
            => \/ /\ DOMAIN data' = DOMAIN data
                  /\ \A n \in DOMAIN data : FilteredBy(n)
               \/ result'.raised /\ data' = data /\ stats' = stats
       /\ rename_user_column
            => \/ /\ DOMAIN data' = DOMAIN data
                  /\ \A n \in DOMAIN data : RenamedBy(n)
               \/ result'.raised /\ data' = data]_vars

\* rename_user_column raised, on the export, with ACTIVITY_LOG and USER_LOG
\* ingested: every record of every dataset is renamed.
C26_Witness ==
    /\ result.op = "rename_user_column" /\ result.raised
    /\ {"ACTIVITY_LOG", "USER_LOG"} \subseteq DOMAIN data
    /\ \A n \in DOMAIN data : \A i \in DOMAIN data[n] :
          old_key \notin DOMAIN data[n][i]
    /\ \E i \in DOMAIN data["USER_LOG"] : new_key \in DOMAIN data["USER_LOG"][i]

\* The components a text of the entry "Excluded Components" names: the parts
\* between its commas.
ConfiguredInUi(text) ==
    CASE text = "System,Folder" -> {"System", "Folder"}
      [] text = "Forum" -> {"Forum"}

\* C27 as stated: when the operator presses "Remove Excluded Components"
\* with datasets ingested, the components named in the entry of the GUI
\* become the core's exclusion set, and the filter removes the records of
\* exactly those components.
C27_FilterUsesUiExclusion ==
    [][(remove_components /\ data # EmptyDict)
          => /\ excluded_components' = ConfiguredInUi(excluded_var)
             /\ \A n \in DOMAIN data :
                   data'[n] = SelectSeq(data[n],
                                  LAMBDA r : Get(r, "Component", NaN)
                                                 \notin ConfiguredInUi(excluded_var))]_vars

\* C28: in every reachable state the dataset map and the statistics map have
\* the same dataset names, and every dataset name is the upper-cased stem of
\* a path in the registry.
C28_NamesAgree ==
    /\ DOMAIN data = DOMAIN stats
    /\ \A n \in DOMAIN data : \E path \in processed_files : DatasetName(path) = n

\* The program was started again on a snapshot it wrote with two datasets
\* ingested from two files.
C28_Witness ==
    /\ result.op = "__init__" /\ ~result.failed
    /\ DOMAIN data = {"ACTIVITY_LOG", "USER_LOG"}
    /\ DOMAIN stats = {"ACTIVITY_LOG", "USER_LOG"}
    /\ processed_files = {"activity_log.csv", "archive/user_log.csv"}

\* C29: in every reachable state, statistics that have filtered_rows belong
\* to a dataset that holds exactly filtered_rows records, and their
\* removed_rows is at least 0 and at most original_rows.
C29_FilterStatsMatchData ==
    \A n \in DOMAIN stats :
        "filtered_rows" \in DOMAIN stats[n]
            => /\ n \in DOMAIN data
               /\ stats[n].filtered_rows = Len(data[n])
               /\ 0 <= stats[n].removed_rows
               /\ stats[n].removed_rows <= stats[n].original_rows

\* USER_LOG was filtered down from 2 records to 1, as the snapshot the filter
\* wrote still says, and then ingested again from user_log.csv: its
\* statistics are those of the ingestion, without filtered_rows, while
\* ACTIVITY_LOG keeps the statistics of the filter.
C29_Witness ==
    /\ state_file.kind = "json"
    /\ "USER_LOG" \in DOMAIN state_file.stats
    /\ "filtered_rows" \in DOMAIN state_file.stats["USER_LOG"]
    /\ state_file.stats["USER_LOG"].filtered_rows = 1
    /\ "USER_LOG" \in DOMAIN stats /\ "ACTIVITY_LOG" \in DOMAIN stats
    /\ "filtered_rows" \notin DOMAIN stats["USER_LOG"]
    /\ Len(data["USER_LOG"]) = 3 /\ "Date" \in DOMAIN data["USER_LOG"][1]
    /\ "filtered_rows" \in DOMAIN stats["ACTIVITY_LOG"]
    /\ stats["ACTIVITY_LOG"].filtered_rows = 2
    /\ stats["ACTIVITY_LOG"].removed_rows = 1

====
